---- MODULE Spec2Model ----
(***************************************************************************)
(* Model of the MDN extension (src/src/lib.rs): the resolution of the rari *)
(* binary (MDN::rari_binary) and the command built from it                 *)
(* (MDN::language_server_command).                                         *)
(*                                                                         *)
(* One call of language_server_command is one step: the function is        *)
(* synchronous and calls do not overlap.  What the host answers during a   *)
(* call (settings, PATH search, release index, outcome of each filesystem  *)
(* or network primitive) is drawn with \E at the point where the code asks *)
(* for it, so an input the code never reads is never drawn.  The call      *)
(* leaves a record of what it did (call); the host then takes the result,  *)
(* and between calls entries of the working directory may disappear.       *)
(***************************************************************************)
EXTENDS Integers, Sequences, FiniteSets, TLC

(* ----------------------------- bounds ---------------------------------- *)

\* Releases of mdn/rari are numbered "1" .. MaxVersion.
MaxVersion == 2

(* ------------------------ Option and Result ---------------------------- *)

\* Option<T>: None is the empty sequence, Some(x) the one-element sequence.
None == <<>>
Some(x) == <<x>>

OsValues == {"Mac", "Linux", "Windows"}
ArchValues == {"Aarch64", "X86", "X8664"}

\* Result<RariBinary>
OkBinary(path, args, environment) ==
    [ok |-> TRUE, path |-> path, args |-> args, environment |-> environment,
     err |-> ""]
ErrBinary(msg) ==
    [ok |-> FALSE, path |-> "", args |-> None, environment |-> None,
     err |-> msg]

(* --------------------------- host inputs ------------------------------- *)

Versions == {ToString(n) : n \in 1..MaxVersion}

\* binary.arguments of the settings block
ArgumentValues == {None, Some(<<"--a", "--b">>)}
\* binary.path of the settings block
PathValues == {None, Some("/usr/local/bin/tool")}
\* LspSettings::for_worktree: Err, Ok without binary block, Ok with one
SettingsValues ==
    {[ok |-> FALSE, binary |-> None], [ok |-> TRUE, binary |-> None]}
    \cup {[ok |-> TRUE, binary |-> Some([path |-> p, arguments |-> a])] :
            p \in PathValues, a \in ArgumentValues}

\* worktree.which("rari")
WhichValues == {None, Some("/usr/bin/rari")}
\* worktree.shell_env()
ShellEnvValues == {<<>>, << <<"HOME", "/home/u">> >>}
\* worktree.root_path()
RootPath == "/proj"

\* The asset names the mdn/rari release publishes.
ReleaseAssets ==
    {"rari-aarch64-apple-darwin.tar.gz",
     "rari-aarch64-unknown-linux-musl.tar.gz",
     "rari-aarch64-pc-windows-msvc.zip",
     "rari-x86_64-apple-darwin.tar.gz",
     "rari-x86_64-unknown-linux-musl.tar.gz",
     "rari-x86_64-pc-windows-msvc.zip"}
\* require_assets: true, so a release always has assets: all the platform
\* builds, the x86_64 mac and windows builds only (a release published
\* before its linux and aarch64 builds were ready), or no build at all.
AssetLists ==
    {ReleaseAssets,
     {"rari-x86_64-apple-darwin.tar.gz", "rari-x86_64-pc-windows-msvc.zip"},
     {"rari-installer.sh"}}
\* zed::latest_github_release
ReleaseValues ==
    {[ok |-> FALSE, version |-> "", assets |-> {}]}
    \cup {[ok |-> TRUE, version |-> v, assets |-> a] :
            v \in Versions, a \in AssetLists}

(* ---------------------------- filesystem ------------------------------- *)

\* The extension's working directory: its top-level entries are the
\* version directories.  An entry is absent, a directory without the tool
\* file ("dir"), a directory holding the tool file as a regular file
\* ("file"), or the same with the file marked executable ("exec").
VersionDir(version) == "rari-" \o version
EntryNames == {VersionDir(v) : v \in Versions}
FsValues == [EntryNames -> {"absent", "dir", "file", "exec"}]

VARIABLES platform, arch, binary_path, fs, call
vars == <<platform, arch, binary_path, fs, call>>

(* --------------------- pieces of MDN::rari_binary ---------------------- *)

\* A match that captures the shell environment on mac only.
Environment_MacOnly(os, shell_env) ==
    IF os = "Mac" THEN Some(shell_env) ELSE None

Environment(os, shell_env) ==
    IF os \in {"Mac", "Linux"} THEN Some(shell_env) ELSE None

\* A settings tier that reads binary.arguments only next to a binary.path.
SettingsArgs_OnlyWithPath(settings) ==
    IF settings.ok /\ settings.binary # None
       /\ settings.binary[1].path # None
    THEN settings.binary[1].arguments ELSE None

SettingsArgs(settings) ==
    IF settings.ok /\ settings.binary # None
    THEN settings.binary[1].arguments ELSE None

\* A resolver that never reads binary.path.
SettingsPath_Ignored(settings) == None

SettingsPath(settings) ==
    IF settings.ok /\ settings.binary # None
    THEN settings.binary[1].path ELSE None

BinaryPath(os, version_dir) ==
    IF os \in {"Mac", "Linux"}
    THEN version_dir \o "/rari" ELSE version_dir \o "/rari.exe"

\* A stat that never finds the file.
IsFile_NeverFound(f, os, path) == FALSE

\* A stat that asks whether the version directory exists, not whether the
\* tool file in it is a regular file.
IsFile_AnyEntry(f, os, path) ==
    \E v \in Versions :
        /\ path = BinaryPath(os, VersionDir(v))
        /\ f[VersionDir(v)] # "absent"

\* fs::metadata(path).is_ok_and(|stat| stat.is_file())
IsFile(f, os, path) ==
    \E v \in Versions :
        /\ path = BinaryPath(os, VersionDir(v))
        /\ f[VersionDir(v)] \in {"file", "exec"}

\* A resolver without the cached-path tier.
CacheHit_Never(bp, f, os) == FALSE

\* A cached-path tier that trusts the cached path without the stat.
CacheHit_NoStat(bp, f, os) == bp # None

\* Lines 53-54: the cached path is set and names a regular file.
CacheHit(bp, f, os) == bp # None /\ IsFile(f, os, bp[1])

\* A match that sends x86 to the x86_64 builds instead of returning early.
AssetName_X86Supported(a, os) ==
    CASE os = "Mac" -> Some("rari-x86_64-apple-darwin.tar.gz")
      [] os = "Linux" -> Some("rari-x86_64-unknown-linux-musl.tar.gz")
      [] os = "Windows" -> Some("rari-x86_64-pc-windows-msvc.zip")

\* The match on (arch, platform); None stands for the x86 early return.
AssetName(a, os) ==
    CASE a = "Aarch64" /\ os = "Mac" -> Some("rari-aarch64-apple-darwin.tar.gz")
      [] a = "Aarch64" /\ os = "Linux" -> Some("rari-aarch64-unknown-linux-musl.tar.gz")
      [] a = "Aarch64" /\ os = "Windows" -> Some("rari-aarch64-pc-windows-msvc.zip")
      [] a = "X86" -> None
      [] a = "X8664" /\ os = "Mac" -> Some("rari-x86_64-apple-darwin.tar.gz")
      [] a = "X8664" /\ os = "Linux" -> Some("rari-x86_64-pc-windows-msvc.zip")
      [] a = "X8664" /\ os = "Windows" -> Some("rari-x86_64-unknown-linux-musl.tar.gz")

\* release.assets.into_iter().find(|asset| asset.name == assert_name)
FindAsset(assets, name) == name \in assets

DownloadedFileType(os) ==
    IF os \in {"Mac", "Linux"} THEN "GzipTar" ELSE "Zip"

\* The error messages of the function.
UnsupportedPlatform == "x86 not supported"
AssetNotFound(name) == "unable to find " \o name \o " in latest release"
FetchFailure == "latest_github_release: e"
DownloadFailure == "failed to download file: e"
PermissionFailure == "make_file_executable: e"
DirectoryListFailure == "failed to list working directory e"
DirectoryEntryFailure == "failed to load directory entry e"

\* zed::download_file into version_dir: on success the directory holds the
\* extracted tool file (not yet executable); a failure leaves the working
\* directory as it was or leaves a directory without the tool file.
DownloadOutcomes == {"ok", "fail", "fail_partial"}
DownloadFile(f, version_dir, outcome) ==
    CASE outcome = "ok" -> [f EXCEPT ![version_dir] = "file"]
      [] outcome = "fail" -> f
      [] outcome = "fail_partial" ->
            [f EXCEPT ![version_dir] = IF @ = "absent" THEN "dir" ELSE @]

\* zed::make_file_executable(&binary_path)
MakeFileExecutable(f, version_dir, ok) ==
    IF ok THEN [f EXCEPT ![version_dir] = "exec"] ELSE f

\* The entries fs::read_dir(".") yields.
DirEntries(f) == {n \in EntryNames : f[n] # "absent"}

\* A cleanup loop that removes nothing.
StaleEntries_None(f, version_dir) == {}

\* The entries the cleanup loop calls remove_dir_all on.
StaleEntries(f, version_dir) == {n \in DirEntries(f) : n # version_dir}

\* fs::remove_dir_all(entry.path()).ok(): the entry goes ("ok"), or the
\* removal fails and the entry stays; the failure is dropped either way.
\* "fail" also stands for an entry the loop did not reach before it
\* returned on a directory-entry error.
RemoveOutcomes == {"ok", "fail"}
RemoveDirAll(kind, outcome) == IF outcome = "ok" THEN "absent" ELSE kind

\* A cleanup loop without the name test: it removes every entry.
Cleanup_RemovesAll(f, version_dir, rm) == [n \in EntryNames |-> "absent"]

\* The cleanup loop, rm giving the outcome of the removal of each entry
\* whose name is not version_dir.
Cleanup(f, version_dir, rm) ==
    [n \in EntryNames |->
        IF n \in StaleEntries(f, version_dir)
        THEN RemoveDirAll(f[n], rm[n]) ELSE f[n]]

\* A cleanup loop that propagates the failure of a removal.
CleanupError_RemovalFails(list, rm) ==
    IF list = "entry_fail" THEN Some(DirectoryEntryFailure)
    ELSE IF \E n \in DOMAIN rm : rm[n] = "fail"
         THEN Some("failed to remove directory entry e")
         ELSE None

\* Lines 114-119: what ends the cleanup loop with an error.  Only an
\* unreadable directory entry does; the outcome of a removal never does.
CleanupError(list, rm) ==
    IF list = "entry_fail" THEN Some(DirectoryEntryFailure) ELSE None

(* --------------------- MDN::language_server_command -------------------- *)

\* A command whose environment puts CONTENT_ROOT after the resolver's
\* entries, and which answers a failed resolution with a bare command.
LanguageServerCommand_EnvLast(ret, root_path) ==
    IF ~ret.ok THEN Some([command |-> "rari", args |-> <<"lsp">>, env |-> <<>>])
    ELSE Some([command |-> ret.path,
               args |-> <<"lsp">> \o (IF ret.args = None THEN <<>> ELSE ret.args[1]),
               env |-> (IF ret.environment = None THEN <<>>
                        ELSE ret.environment[1])
                       \o << <<"CONTENT_ROOT", root_path \o "/files">> >>])

\* The Command built from a resolved binary; None when resolution failed.
LanguageServerCommand(ret, root_path) ==
    IF ~ret.ok THEN None
    ELSE Some([command |-> ret.path,
               args |-> <<"lsp">> \o (IF ret.args = None THEN <<>> ELSE ret.args[1]),
               env |-> << <<"CONTENT_ROOT", root_path \o "/files">> >>
                       \o (IF ret.environment = None THEN <<>>
                           ELSE ret.environment[1])])

Op(name, arg) == <<name, arg>>

\* The record of a call, kept until the host has taken its result: the tier
\* it returned from, its result and the command built from it, the host
\* calls it made in their order, the answers the host gave (shell_env is
\* empty when the call did not ask for it), the entries the cleanup failed
\* to remove, and (follows) the path the call right before
\* it returned from the fetch tier, the working directory untouched since.
NoCall ==
    [done |-> FALSE, tier |-> "", ret |-> ErrBinary(""), command |-> None,
     ops |-> <<>>, settings |-> [ok |-> FALSE, binary |-> None],
     shell_env |-> <<>>, which |-> None, release |-> None,
     asset_name |-> None, remove_failed |-> {}, follows |-> None]

Follows ==
    IF call.done /\ call.tier = "fetch" /\ call.ret.ok
    THEN Some(call.ret.path) ELSE None

\* An end of a call that caches whatever path the call resolved, from any
\* tier, and clears the cached path when the call failed.
Return_CachesResolved(tier, ret, ops, bp, f, in) ==
    /\ binary_path' = IF ret.ok THEN Some(ret.path) ELSE None
    /\ fs' = f
    /\ call' = [done |-> TRUE, tier |-> tier, ret |-> ret,
                command |-> LanguageServerCommand(ret, RootPath),
                ops |-> ops, settings |-> in.settings,
                shell_env |-> in.shell_env, which |-> in.which,
                release |-> in.release, asset_name |-> in.asset_name,
                remove_failed |-> in.remove_failed,
                follows |-> call.follows]
    /\ UNCHANGED <<platform, arch>>

\* The end of a call: the function returns ret from tier, having performed
\* ops, and leaves the cached path bp and the working directory f.
Return(tier, ret, ops, bp, f, in) ==
    /\ binary_path' = bp
    /\ fs' = f
    /\ call' = [done |-> TRUE, tier |-> tier, ret |-> ret,
                command |-> LanguageServerCommand(ret, RootPath),
                ops |-> ops, settings |-> in.settings,
                shell_env |-> in.shell_env, which |-> in.which,
                release |-> in.release, asset_name |-> in.asset_name,
                remove_failed |-> in.remove_failed,
                follows |-> call.follows]
    /\ UNCHANGED <<platform, arch>>

\* An install that tries the download a second time when it failed, and
\* goes on to the cleanup when the file could not be marked executable.
Install_Retrying(args, environment, ops, in, version_dir, path) ==
    LET ops1 == ops \o <<Op("set_language_server_installation_status", "Downloading"),
                         Op("download_file", DownloadedFileType(platform))>>
    IN \E dl \in DownloadOutcomes :
        LET f1 == DownloadFile(fs, version_dir, dl) IN
        IF dl # "ok"
        THEN Return("fetch", ErrBinary(DownloadFailure),
                    ops1 \o <<Op("download_file", DownloadedFileType(platform))>>,
                    binary_path, f1, in)
        ELSE \E chmod \in BOOLEAN :
            LET f2 == MakeFileExecutable(f1, version_dir, chmod)
                ops3 == ops1 \o <<Op("make_file_executable", path),
                                  Op("fs::read_dir", ".")>>
            IN
            \E rm \in [StaleEntries(f2, version_dir) -> RemoveOutcomes] :
                LET f3 == Cleanup(f2, version_dir, rm)
                    in3 == [in EXCEPT !.remove_failed =
                               {n \in DOMAIN rm : rm[n] = "fail"}]
                IN
                IF ~chmod
                THEN Return("fetch", ErrBinary(PermissionFailure), ops3,
                            binary_path, f3, in3)
                ELSE Return("fetch", OkBinary(path, args, environment),
                            ops3, Some(path), f3, in3)

\* Lines 94-127: the file at binary_path is missing, so download, mark
\* executable and clean up; then cache the path and return it.
Install(args, environment, ops, in, version_dir, path) ==
    LET ops1 == ops \o <<Op("set_language_server_installation_status", "Downloading"),
                         Op("download_file", DownloadedFileType(platform))>>
    IN \E dl \in DownloadOutcomes :
        LET f1 == DownloadFile(fs, version_dir, dl) IN
        IF dl # "ok"
        THEN Return("fetch", ErrBinary(DownloadFailure), ops1, binary_path, f1, in)
        ELSE \E chmod \in BOOLEAN :
            LET f2 == MakeFileExecutable(f1, version_dir, chmod)
                ops2 == ops1 \o <<Op("make_file_executable", path)>>
            IN
            IF ~chmod
            THEN Return("fetch", ErrBinary(PermissionFailure), ops2, binary_path, f2, in)
            ELSE \E list \in {"ok", "list_fail", "entry_fail"} :
                LET ops3 == ops2 \o <<Op("fs::read_dir", ".")>> IN
                IF list = "list_fail"
                THEN Return("fetch", ErrBinary(DirectoryListFailure), ops3,
                            binary_path, f2, in)
                ELSE
                \E rm \in [StaleEntries(f2, version_dir) -> RemoveOutcomes] :
                    LET f3 == Cleanup(f2, version_dir, rm)
                        in3 == [in EXCEPT !.remove_failed =
                                   {n \in DOMAIN rm : rm[n] = "fail"}]
                    IN
                    IF CleanupError(list, rm) # None
                    THEN Return("fetch", ErrBinary(CleanupError(list, rm)[1]),
                                ops3, binary_path, f3, in3)
                    ELSE Return("fetch", OkBinary(path, args, environment),
                                ops3, Some(path), f3, in3)

\* Lines 63-128: the network fetch tier.
Fetch(args, environment, ops, in) ==
    \E release \in ReleaseValues :
        LET ops1 == ops \o <<Op("latest_github_release", "mdn/rari")>>
            in1 == [in EXCEPT !.release = Some(release)]
            name == AssetName(arch, platform)
        IN
        IF ~release.ok
        THEN Return("fetch", ErrBinary(FetchFailure), ops1, binary_path, fs, in1)
        ELSE IF name = None
        THEN Return("fetch", ErrBinary(UnsupportedPlatform), ops1, binary_path, fs, in1)
        ELSE
        LET in2 == [in1 EXCEPT !.asset_name = name] IN
        IF ~FindAsset(release.assets, name[1])
        THEN Return("fetch", ErrBinary(AssetNotFound(name[1])), ops1,
                    binary_path, fs, in2)
        ELSE
        LET version_dir == VersionDir(release.version)
            path == BinaryPath(platform, version_dir)
            ops2 == ops1 \o <<Op("fs::metadata", path)>>
        IN
        IF IsFile(fs, platform, path)
        THEN Return("fetch", OkBinary(path, args, environment), ops2,
                    Some(path), fs, in2)
        ELSE Install(args, environment, ops2, in2, version_dir, path)

\* Lines 32-61 and on: the tiers, with the environment already captured.
Resolve(environment, shell_env, ops) ==
    \E settings \in SettingsValues :
        LET args == SettingsArgs(settings)
            spath == SettingsPath(settings)
            in0 == [settings |-> settings, shell_env |-> shell_env,
                    which |-> None, release |-> None,
                    asset_name |-> None, remove_failed |-> {}]
            ops0 == ops \o <<Op("LspSettings::for_worktree", "mdn-lsp")>>
        IN
        IF spath # None
        THEN Return("settings", OkBinary(spath[1], args, environment), ops0,
                    binary_path, fs, in0)
        ELSE \E w \in WhichValues :
            LET ops1 == ops0 \o <<Op("which", "rari")>>
                in1 == [in0 EXCEPT !.which = w]
            IN
            IF w # None
            THEN Return("path", OkBinary(w[1], args, environment), ops1,
                        binary_path, fs, in1)
            ELSE
            LET ops2 == IF binary_path # None
                        THEN ops1 \o <<Op("fs::metadata", binary_path[1])>>
                        ELSE ops1
            IN
            IF CacheHit(binary_path, fs, platform)
            THEN Return("cache", OkBinary(binary_path[1], args, environment),
                        ops2, binary_path, fs, in1)
            ELSE Fetch(args, environment, ops2, in1)

\* Lines 19-128 under lines 132-151: one call of language_server_command.
\* The shell environment is asked for on mac and linux only.
rari_binary ==
    /\ ~call.done
    /\ IF platform \in {"Mac", "Linux"}
       THEN \E shell_env \in ShellEnvValues :
               Resolve(Environment(platform, shell_env), shell_env,
                       <<Op("shell_env", "")>>)
       ELSE Resolve(Environment(platform, <<>>), <<>>, <<>>)

\* The host takes the command, or the error, the call returned.  What stays
\* for the next call to be compared with is the path of a fetch-tier
\* success.
HostTakesResult ==
    /\ call.done
    /\ call' = [NoCall EXCEPT !.follows = Follows]
    /\ UNCHANGED <<platform, arch, binary_path, fs>>

\* Between calls somebody outside the extension removes an entry of the
\* working directory (or the tool file in it).
ExternalRemove ==
    \E n \in EntryNames, k \in {"absent", "dir"} :
        /\ ~call.done
        /\ fs[n] # "absent"
        /\ fs[n] # k
        /\ fs' = [fs EXCEPT ![n] = k]
        /\ call' = NoCall
        /\ UNCHANGED <<platform, arch, binary_path>>

\* MDN::new and the state the process starts in.
Init ==
    /\ platform \in OsValues
    /\ arch \in ArchValues
    /\ binary_path = None
    /\ fs \in FsValues
    /\ call = NoCall

Next == rari_binary \/ HostTakesResult \/ ExternalRemove

Spec == Init /\ [][Next]_vars

\* A process that starts with every tool file on disk already marked
\* executable: no version directory holds a tool file that is not.
InitExec ==
    /\ Init
    /\ \A n \in EntryNames : fs[n] # "file"

SpecExec == InitExec /\ [][Next]_vars

(* ------------------------- reading a call record ----------------------- *)

HasOp(c, name) == \E i \in DOMAIN c.ops : c.ops[i][1] = name
CountOp(c, name) == Cardinality({i \in DOMAIN c.ops : c.ops[i][1] = name})

\* binary.path as the settings block of the call gave it.
ConfiguredPath(c) ==
    IF c.settings.ok /\ c.settings.binary # None
    THEN c.settings.binary[1].path ELSE None

\* The tool file of a version directory, on this platform.
ToolFile(dir) == dir \o (IF platform = "Windows" THEN "/rari.exe" ELSE "/rari")

\* path names a regular file of the working directory f.
RegularFileAt(f, path) ==
    \E n \in DOMAIN f : f[n] \in {"file", "exec"} /\ path = ToolFile(n)

\* The version directories the working directory f holds.
VersionDirsIn(f) == {n \in DOMAIN f : f[n] # "absent"}

\* The call got as far as the file check of the fetch tier (line 94).
ReachedFileCheck(c) ==
    \E i, j \in DOMAIN c.ops :
        /\ i < j
        /\ c.ops[i][1] = "latest_github_release"
        /\ c.ops[j][1] = "fs::metadata"

\* The call downloaded, installed and returned successfully.
FreshInstall(c) ==
    c.done /\ c.tier = "fetch" /\ c.ret.ok /\ HasOp(c, "download_file")

\* The asset name of section 4.1 of the specification.
TableAssetName(a, os) ==
    CASE a = "Aarch64" /\ os = "Mac" -> "rari-aarch64-apple-darwin.tar.gz"
      [] a = "Aarch64" /\ os = "Linux" -> "rari-aarch64-unknown-linux-musl.tar.gz"
      [] a = "Aarch64" /\ os = "Windows" -> "rari-aarch64-pc-windows-msvc.zip"
      [] a = "X8664" /\ os = "Mac" -> "rari-x86_64-apple-darwin.tar.gz"
      [] a = "X8664" /\ os = "Linux" -> "rari-x86_64-unknown-linux-musl.tar.gz"
      [] a = "X8664" /\ os = "Windows" -> "rari-x86_64-pc-windows-msvc.zip"

(* -------------------------------- C1 ----------------------------------- *)

\* C1: when the settings configure a binary path, the call returns exactly
\* that path with the configured arguments, and makes no PATH search, no
\* stat of any path, no release-index query and no download.
C1_SettingsPathWins ==
    (call.done /\ ConfiguredPath(call) # None) =>
        /\ call.ret.ok
        /\ call.tier = "settings"
        /\ call.ret.path = ConfiguredPath(call)[1]
        /\ call.ret.args = call.settings.binary[1].arguments
        /\ ~HasOp(call, "which")
        /\ ~HasOp(call, "fs::metadata")
        /\ ~HasOp(call, "latest_github_release")
        /\ ~HasOp(call, "download_file")

\* A call answered from the settings while the cached path is set and its
\* file is gone from disk.
C1_Witness ==
    /\ call.done
    /\ ConfiguredPath(call) # None
    /\ call.ret.path = ConfiguredPath(call)[1]
    /\ binary_path # None
    /\ ~RegularFileAt(fs, binary_path[1])

(* -------------------------------- C2 ----------------------------------- *)

C2Step ==
    call'.done =>
        /\ (ConfiguredPath(call') = None /\ call'.which # None) =>
              /\ call'.ret.ok
              /\ call'.ret.path = call'.which[1]
              /\ ~HasOp(call', "fs::metadata")
              /\ ~HasOp(call', "latest_github_release")
              /\ ~HasOp(call', "download_file")
        /\ (/\ ConfiguredPath(call') = None
            /\ HasOp(call', "which") /\ call'.which = None
            /\ binary_path # None /\ RegularFileAt(fs, binary_path[1])) =>
              /\ call'.ret.ok
              /\ call'.ret.path = binary_path[1]
              /\ ~HasOp(call', "latest_github_release")
              /\ ~HasOp(call', "download_file")
        /\ HasOp(call', "latest_github_release") =>
              /\ ConfiguredPath(call') = None
              /\ HasOp(call', "which") /\ call'.which = None
              /\ binary_path = None \/ ~RegularFileAt(fs, binary_path[1])

\* C2: a call stops at the first tier that yields a path: a PATH hit
\* returns the PATH entry with no stat, query or download; a PATH miss with
\* the cached file on disk returns the cached path with no query or
\* download; the release index is queried only when settings, PATH and
\* cached path all yield nothing.
C2_FirstTierWins == [][C2Step]_vars

\* A call that PATH missed and the cached file answered.
C2_Witness ==
    /\ call.done
    /\ ConfiguredPath(call) = None
    /\ HasOp(call, "which") /\ call.which = None
    /\ call.tier = "cache"
    /\ call.ret.path = binary_path[1]
    /\ ~HasOp(call, "latest_github_release")

(* -------------------------------- C3 ----------------------------------- *)

\* C3: for each of the six supported (architecture, OS) pairs the asset
\* name the resolver looks for in the latest release is the table entry.
C3_AssetNameIsTableEntry ==
    (call.done /\ call.asset_name # None) =>
        call.asset_name[1] = TableAssetName(arch, platform)

(* -------------------------------- C4 ----------------------------------- *)

\* C4 as stated: on x86 every resolution call fails with
\* UnsupportedPlatform, whatever settings, PATH, cache and index hold.
C4_X86AlwaysFails ==
    (arch = "X86" /\ call.done) =>
        (~call.ret.ok /\ call.ret.err = UnsupportedPlatform)

\* C4 amended: on x86 a call that gets no path from the settings or PATH
\* always fails, with UnsupportedPlatform when the release-index query
\* succeeds and with the query's failure otherwise; nothing is ever cached.
C4_X86FailsInFetchTier ==
    arch = "X86" =>
        /\ binary_path = None
        /\ (call.done /\ ConfiguredPath(call) = None /\ call.which = None) =>
              /\ ~call.ret.ok
              /\ HasOp(call, "latest_github_release")
              /\ ~HasOp(call, "download_file")
              /\ call.ret.err =
                    IF call.release[1].ok THEN UnsupportedPlatform
                    ELSE FetchFailure

\* An x86 call that reached the asset selection.
C4_Witness ==
    /\ arch = "X86"
    /\ call.done
    /\ call.release # None /\ call.release[1].ok
    /\ call.ret.err = UnsupportedPlatform

(* -------------------------------- C5 ----------------------------------- *)

\* C5 as stated: once the cached path is set, no later call changes it.
C5_WrittenOnce == [][binary_path # None => binary_path' = binary_path]_vars

C5Step ==
    /\ binary_path # None => binary_path' # None
    /\ binary_path' # binary_path =>
          /\ call'.done /\ call'.tier = "fetch" /\ call'.ret.ok
          /\ binary_path' = Some(call'.ret.path)
          /\ binary_path = None \/ ~RegularFileAt(fs, binary_path[1])

\* C5 amended: the cached path starts empty, is never cleared, and is
\* written only at the end of a call that succeeds through the fetch tier,
\* where it becomes the returned path; a later call changes its value only
\* when the cached file is no longer a regular file on disk.
C5_WrittenByFetchOnly == [][C5Step]_vars

\* A fetch that succeeded after the stat of another, earlier cached path
\* failed: the cached path has been written a second time.
C5_Witness ==
    /\ call.done /\ call.tier = "fetch" /\ call.ret.ok
    /\ binary_path = Some(call.ret.path)
    /\ \E i \in DOMAIN call.ops :
          call.ops[i][1] = "fs::metadata" /\ call.ops[i][2] # call.ret.path

(* -------------------------------- C6 ----------------------------------- *)

\* C6: with no settings path and no PATH match, the call right after a call
\* that succeeded through the fetch tier (working directory untouched in
\* between) returns the same path, makes exactly one stat and no download.
C6_SecondCallIsCacheHit ==
    (/\ call.done /\ call.follows # None
     /\ ConfiguredPath(call) = None /\ call.which = None) =>
        /\ call.ret.ok
        /\ call.ret.path = call.follows[1]
        /\ CountOp(call, "fs::metadata") = 1
        /\ ~HasOp(call, "download_file")

\* The second of two such calls.
C6_Witness ==
    /\ call.done /\ call.follows # None
    /\ ConfiguredPath(call) = None
    /\ HasOp(call, "which") /\ call.which = None
    /\ call.ret.ok /\ call.ret.path = call.follows[1]

(* -------------------------------- C7 ----------------------------------- *)

C7Step ==
    (call'.done /\ ReachedFileCheck(call')) =>
        LET dir == "rari-" \o call'.release[1].version
            existed == fs[dir] \in {"file", "exec"}
        IN  /\ HasOp(call', "download_file") <=> ~existed
            /\ existed =>
                  /\ ~HasOp(call', "set_language_server_installation_status")
                  /\ ~HasOp(call', "make_file_executable")
                  /\ ~HasOp(call', "fs::read_dir")
                  /\ fs' = fs
                  /\ call'.ret.ok
                  /\ call'.ret.path = ToolFile(dir)
                  /\ binary_path' = Some(ToolFile(dir))

\* C7: in the fetch tier a download happens iff no regular file exists at
\* the version-qualified path of the latest release; when the file exists
\* the call sets no status, downloads nothing, marks nothing executable and
\* removes nothing, yet returns the path and caches it.
C7_DownloadIffFileMissing == [][C7Step]_vars

\* A fetch-tier call that found the file in place and skipped the download.
C7_Witness ==
    /\ call.done /\ ReachedFileCheck(call)
    /\ call.ret.ok
    /\ ~HasOp(call, "download_file")
    /\ binary_path = Some(call.ret.path)

(* -------------------------------- C8 ----------------------------------- *)

\* C8 as stated: after a fresh successful install of version V the working
\* directory holds exactly one version directory, the one of V.
C8_ExactlyOneVersionDir ==
    FreshInstall(call) =>
        VersionDirsIn(fs) = {"rari-" \o call.release[1].version}

C8Step ==
    FreshInstall(call') =>
        LET dir == "rari-" \o call'.release[1].version IN
        /\ fs'[dir] \in {"file", "exec"}
        /\ \A n \in DOMAIN fs : n # dir =>
              fs'[n] = IF n \in call'.remove_failed THEN fs[n] ELSE "absent"
        /\ call'.remove_failed = {} => VersionDirsIn(fs') = {dir}

\* C8 amended: after a fresh successful install of version V the working
\* directory holds the version directory of V, and every other version
\* directory present before the call is gone unless its removal failed;
\* when no removal fails, V's is the only version directory.
C8_StaleGoneUnlessRemovalFailed == [][C8Step]_vars

\* A fresh install that could not remove a stale version directory.
C8_Witness ==
    /\ FreshInstall(call)
    /\ call.remove_failed # {}
    /\ call.remove_failed \subseteq VersionDirsIn(fs)

(* -------------------------------- C9 ----------------------------------- *)

\* C9: after any call that returns successfully through the fetch tier the
\* working directory holds at most one version directory.
C9_AtMostOneVersionDir ==
    (call.done /\ call.tier = "fetch" /\ call.ret.ok) =>
        Cardinality(VersionDirsIn(fs)) <= 1

(* -------------------------------- C10 ---------------------------------- *)

C10Step ==
    (/\ call'.done
     /\ call'.release # None /\ call'.release[1].ok
     /\ arch # "X86"
     /\ TableAssetName(arch, platform) \notin call'.release[1].assets) =>
        /\ ~call'.ret.ok
        /\ \E n \in ReleaseAssets : call'.ret.err = AssetNotFound(n)
        /\ ~HasOp(call', "download_file")
        /\ fs' = fs
        /\ binary_path' = binary_path

\* C10: when the latest release has no asset with the platform's expected
\* name, the call fails with AssetNotFound, downloads nothing, creates and
\* removes no directory entry and leaves the cached path unchanged.
C10_AssetNotFoundLeavesNoTrace == [][C10Step]_vars

(* -------------------------------- C11 ---------------------------------- *)

C11Step ==
    (call'.done /\ ~call.done) =>
        /\ ~call'.ret.ok =>
              /\ call'.tier = "fetch"
              /\ HasOp(call', "latest_github_release")
        /\ ConfiguredPath(call') = None => HasOp(call', "which")
        /\ (/\ ConfiguredPath(call') = None
            /\ call'.which = None
            /\ binary_path = None \/ ~RegularFileAt(fs, binary_path[1])) =>
              /\ call'.tier = "fetch"
              /\ HasOp(call', "latest_github_release")

\* C11: a call can fail only in the fetch tier.  Unreadable settings, an
\* absent binary block or path, a PATH miss, an empty cached path and a
\* cached path that is no longer a regular file each send the call on to
\* the next tier, and every failed call has queried the release index.
C11_FailsOnlyInFetchTier == [][C11Step]_vars

\* A call that read no settings, missed on PATH, found the cached file gone
\* and then failed in the fetch tier.
C11_Witness ==
    /\ call.done
    /\ ~call.settings.ok
    /\ HasOp(call, "which") /\ call.which = None
    /\ binary_path # None /\ HasOp(call, "fs::metadata")
    /\ ~RegularFileAt(fs, binary_path[1])
    /\ ~call.ret.ok
    /\ HasOp(call, "latest_github_release")

(* -------------------------------- C12 ---------------------------------- *)

C12Step ==
    (call'.done /\ ~call.done /\ HasOp(call', "fs::read_dir")) =>
        LET listing == call'.ret.err \in
                          {DirectoryListFailure, DirectoryEntryFailure}
            dir == "rari-" \o call'.release[1].version
        IN  /\ listing =>
                  /\ ~call'.ret.ok
                  /\ binary_path' = binary_path
            /\ ~listing =>
                  /\ call'.ret.ok
                  /\ call'.ret.path = ToolFile(dir)
                  /\ binary_path' = Some(ToolFile(dir))

\* C12: in the cleanup after a fresh download, a stale entry that cannot be
\* removed never fails the call, which still returns the new path and
\* caches it; a failure to list the working directory fails the call and
\* leaves the cached path unchanged.
C12_OnlyListingFailsCleanup == [][C12Step]_vars

\* A fresh install that returned and cached the new path although a stale
\* entry could not be removed.
C12_Witness ==
    /\ call.done /\ HasOp(call, "fs::read_dir")
    /\ call.remove_failed # {}
    /\ call.ret.ok
    /\ binary_path = Some(call.ret.path)

(* -------------------------------- C13 ---------------------------------- *)

\* C13: every successful call, whichever tier produced the path, carries
\* the project's shell environment on mac and linux (so a non-empty shell
\* environment gives a non-empty result environment) and carries no
\* environment on windows.
C13_EnvironmentFollowsPlatform ==
    (call.done /\ call.ret.ok) =>
        IF platform = "Windows"
        THEN call.ret.environment = None /\ ~HasOp(call, "shell_env")
        ELSE /\ HasOp(call, "shell_env")
             /\ call.ret.environment # None
             /\ call.ret.environment[1] = call.shell_env
             /\ call.shell_env # <<>> => call.ret.environment[1] # <<>>

\* A linux call answered by the cached-path tier under a non-empty shell
\* environment.
C13_Witness ==
    /\ call.done /\ call.ret.ok
    /\ platform = "Linux"
    /\ call.tier = "cache"
    /\ call.shell_env # <<>>
    /\ call.ret.environment = <<call.shell_env>>

(* -------------------------------- C14 ---------------------------------- *)

\* C14: extra arguments configured without a path are attached, in their
\* order, to the result of whichever later tier produces the path; with the
\* settings block absent or unreadable the result carries no arguments.
C14_ArgumentsReachLaterTiers ==
    (call.done /\ call.ret.ok /\ ConfiguredPath(call) = None) =>
        /\ call.tier \in {"path", "cache", "fetch"}
        /\ call.ret.args =
              IF call.settings.ok /\ call.settings.binary # None
              THEN call.settings.binary[1].arguments
              ELSE <<>>

\* A fetch-tier result carrying the two configured arguments in order.
C14_Witness ==
    /\ call.done /\ call.ret.ok
    /\ ConfiguredPath(call) = None
    /\ call.tier = "fetch"
    /\ call.ret.args = << <<"--a", "--b">> >>

(* -------------------------------- C15 ---------------------------------- *)

C15Step ==
    (/\ call'.done /\ ~call.done
     /\ ConfiguredPath(call') = None
     /\ HasOp(call', "which") /\ call'.which = None
     /\ binary_path = None
     /\ call'.release # None /\ call'.release[1].ok
     /\ arch # "X86"
     /\ TableAssetName(arch, platform) \in call'.release[1].assets
     /\ call'.ret.err \notin {DownloadFailure, PermissionFailure,
                              DirectoryListFailure, DirectoryEntryFailure}) =>
        LET v == call'.release[1].version
            local == IF platform = "Windows"
                     THEN "rari-" \o v \o "/rari.exe"
                     ELSE "rari-" \o v \o "/rari"
        IN  /\ call'.ret.ok
            /\ call'.ret.path = local
            /\ binary_path' = Some(local)

\* C15: with no settings path, no PATH match and an empty cache, when the
\* release index returns version v with the platform's asset and the
\* download, mark-executable and cleanup steps succeed, the resolved path is
\* "rari-v/rari" on mac and linux and "rari-v/rari.exe" on windows, and the
\* cached path becomes that path.
C15_ResolvedPathIsVersionQualified == [][C15Step]_vars

(* -------------------------------- C16 ---------------------------------- *)

\* The extra arguments and the environment entries the resolver supplied.
ResolverArgs(c) == IF c.ret.args = None THEN <<>> ELSE c.ret.args[1]

ResolverEnv(c) == IF c.ret.environment = None THEN <<>> ELSE c.ret.environment[1]

\* C16: the command built from a successful resolution has the resolved
\* path as its executable, the arguments "lsp" followed by the resolver's
\* extra arguments in their order, and an environment whose first entry is
\* CONTENT_ROOT = "<project root>/files" followed by the resolver's
\* environment entries; a failed resolution produces no command and its
\* failure is what the host gets.
C16_CommandFromResolution ==
    call.done =>
        IF call.ret.ok
        THEN /\ call.command # None
             /\ call.command[1].command = call.ret.path
             /\ Len(call.command[1].args) = 1 + Len(ResolverArgs(call))
             /\ call.command[1].args[1] = "lsp"
             /\ \A i \in 1..Len(ResolverArgs(call)) :
                    call.command[1].args[i + 1] = ResolverArgs(call)[i]
             /\ Len(call.command[1].env) = 1 + Len(ResolverEnv(call))
             /\ call.command[1].env[1] = <<"CONTENT_ROOT", "/proj/files">>
             /\ \A i \in 1..Len(ResolverEnv(call)) :
                    call.command[1].env[i + 1] = ResolverEnv(call)[i]
        ELSE /\ call.command = None
             /\ call.ret.err # ""

\* A resolution that supplied two extra arguments and a shell environment.
C16_Witness ==
    /\ call.done /\ call.ret.ok
    /\ Len(ResolverArgs(call)) = 2
    /\ Len(ResolverEnv(call)) >= 1
    /\ call.command # None
    /\ Len(call.command[1].args) = 3

(* -------------------------------- C17 ---------------------------------- *)

\* The host calls of the fetch tier in the order of a fresh install.
FetchOrder ==
    <<"latest_github_release", "fs::metadata",
      "set_language_server_installation_status", "download_file",
      "make_file_executable", "fs::read_dir">>

\* The names of the host calls a call made from the release-index query on.
FetchTail(c) ==
    LET first == CHOOSE i \in DOMAIN c.ops :
                     /\ c.ops[i][1] = "latest_github_release"
                     /\ \A j \in 1..(i - 1) : c.ops[j][1] # "latest_github_release"
    IN  [k \in 1..(Len(c.ops) - first + 1) |-> c.ops[first + k - 1][1]]

\* How many of the steps of FetchOrder a call ending with ret performs when
\* the tool file is not on disk.
StepsBefore(ret) ==
    CASE ret.ok -> 6
      [] ret.err = FetchFailure -> 1
      [] ret.err = UnsupportedPlatform -> 1
      [] ret.err = DownloadFailure -> 4
      [] ret.err = PermissionFailure -> 5
      [] ret.err \in {DirectoryListFailure, DirectoryEntryFailure} -> 6
      [] OTHER -> 1

C17Step ==
    (call'.done /\ ~call.done /\ HasOp(call', "latest_github_release")) =>
        LET t == FetchTail(call')
            n == Len(t)
        IN  /\ n <= Len(FetchOrder)
            /\ \A i \in 1..n : t[i] = FetchOrder[i]
            /\ (call'.ret.ok /\ RegularFileAt(fs, call'.ret.path)) => n = 2
            /\ ~(call'.ret.ok /\ RegularFileAt(fs, call'.ret.path)) =>
                  n = StepsBefore(call'.ret)
            /\ call'.ret.err = FetchFailure => call'.asset_name = None
            /\ n < 4 => fs' = fs
            /\ n < 6 => \A e \in DOMAIN fs : fs[e] # "absent" => fs'[e] # "absent"
            /\ IF call'.ret.ok THEN binary_path' = Some(call'.ret.path)
                               ELSE binary_path' = binary_path

\* C17: within a call the fetch-tier steps happen in one fixed order
\* (release-index query, asset selection, file check, "downloading" status,
\* download-and-extract, mark-executable, cleanup, cache write), each at
\* most once, and a failure at a step ends the call with no later step
\* performed: nothing downloaded before the download step, nothing removed
\* before the cleanup, the cached path written only by a call that succeeds.
C17_FetchStepsInOrder == [][C17Step]_vars

\* A fresh install that went through every step, removed a stale version
\* directory and cached the path.
C17_Witness ==
    /\ FreshInstall(call)
    /\ Len(FetchTail(call)) = 6
    /\ binary_path = Some(call.ret.path)
    /\ \E e \in DOMAIN fs : fs[e] = "absent"

(* -------------------------------- C18 ---------------------------------- *)

\* C18: when every tool file on disk at process start is executable, every
\* path returned by the cached-path tier or the fetch tier names a file on
\* which mark-executable has succeeded, whatever calls came before, a call
\* whose download succeeded and whose mark-executable failed included.
C18_ReturnedFileIsExecutable ==
    (call.done /\ call.ret.ok /\ call.tier \in {"cache", "fetch"}) =>
        \E n \in DOMAIN fs : call.ret.path = ToolFile(n) /\ fs[n] = "exec"

(* -------------------------------- C19 ---------------------------------- *)

\* The version-qualified local path of the release a call was answered with.
VersionQualified(c) == ToolFile("rari-" \o c.release[1].version)

C19Step ==
    /\ binary_path' # binary_path =>
          /\ call'.done /\ ~call.done
          /\ call'.tier = "fetch" /\ call'.ret.ok
          /\ call'.release # None
          /\ call'.ret.path = VersionQualified(call')
          /\ binary_path' = Some(VersionQualified(call'))
    /\ (call'.done /\ ~call.done
        /\ (call'.tier \in {"settings", "path", "cache"} \/ ~call'.ret.ok)) =>
          binary_path' = binary_path
    /\ (call'.done /\ ConfiguredPath(call') # None) =>
          binary_path' # ConfiguredPath(call')
    /\ (call'.done /\ call'.which # None) => binary_path' # call'.which
    /\ binary_path' # None => \E n \in DOMAIN fs : binary_path'[1] = ToolFile(n)
    /\ binary_path # None => binary_path' # None

\* C19: the cached path changes only at the end of a call that succeeds
\* through the fetch tier, where it becomes the version-qualified path the
\* call returns; calls answered by the settings, PATH or cached-path tier
\* and failed calls leave it as it was, so it never holds a settings path or
\* a PATH entry and is never reset to empty.
C19_CachedPathFrame == [][C19Step]_vars

\* A call answered from PATH right after a fetch-tier success: the cached
\* path still is the path that fetch returned.
C19_Witness ==
    /\ call.done /\ call.tier = "path" /\ call.ret.ok
    /\ call.follows # None
    /\ binary_path = call.follows
    /\ binary_path # Some(call.ret.path)

(* -------------------------------- C20 ---------------------------------- *)

\* The asset names that end in .tar.gz and those that end in .zip.
TarGzNames ==
    {"rari-aarch64-apple-darwin.tar.gz", "rari-aarch64-unknown-linux-musl.tar.gz",
     "rari-x86_64-apple-darwin.tar.gz", "rari-x86_64-unknown-linux-musl.tar.gz"}

ZipNames == {"rari-aarch64-pc-windows-msvc.zip", "rari-x86_64-pc-windows-msvc.zip"}

\* The archive kind a call handed to download_file.
DownloadKind(c) ==
    LET i == CHOOSE k \in DOMAIN c.ops : c.ops[k][1] = "download_file"
    IN  c.ops[i][2]

\* C20: for every supported (architecture, OS) pair the archive kind handed
\* to download-and-extract agrees with the extension of the asset name
\* selected for the pair: gzip-tar for .tar.gz, zip for .zip.
C20_ArchiveKindMatchesExtension ==
    (call.done /\ HasOp(call, "download_file")) =>
        /\ call.asset_name # None
        /\ call.asset_name[1] \in TarGzNames => DownloadKind(call) = "GzipTar"
        /\ call.asset_name[1] \in ZipNames => DownloadKind(call) = "Zip"
        /\ call.asset_name[1] \in TarGzNames \cup ZipNames

====
